---------------------------- MODULE Spec2Model ----------------------------
(***************************************************************************)
(* A model of src/solver.py, the Moltbook verification challenge solver.   *)
(*                                                                         *)
(* Python strings are sequences of one-character strings.  Python floats   *)
(* are exact rationals [n, d]; a value a function may raise instead of     *)
(* returning is carried in the field exc.                                  *)
(*                                                                         *)
(* Four specifications share the variables:                                *)
(*   SpecMatcher    parse_obfuscated_number on obfuscated number words     *)
(*   SpecExtractor  extract_numbers_from_text on bounded texts             *)
(*   SpecSolve      calculate_answer / solve_challenge on bounded texts    *)
(*   Spec           main(): the parse, solve and auto commands             *)
(***************************************************************************)
EXTENDS Integers, Sequences, FiniteSets, TLC

VARIABLES
    pc,         \* position of the run
    text,       \* the string the function is called with
    matched,    \* parse_obfuscated_number's return value
    numbers,    \* extract_numbers_from_text: the local list `numbers`
    extracted,  \* extract_numbers_from_text's return value
    answers,    \* calculate_answer's return value
    answer,     \* solve_challenge's return value
    args,       \* main: the parsed command line
    stdin,      \* main: the JSON document on standard input (auto)
    net,        \* main: what the HTTP endpoint does when it is called
    stdout,     \* main: what was printed, in order
    posts,      \* main: number of requests.post calls made
    status      \* main: how the process ended

vars == <<pc, text, matched, numbers, extracted, answers, answer,
          args, stdin, net, stdout, posts, status>>

---------------------------------------------------------------------------
(* Characters and the str methods the code uses *)

LowerLetters ==
    <<"a","b","c","d","e","f","g","h","i","j","k","l","m",
      "n","o","p","q","r","s","t","u","v","w","x","y","z">>

UpperLetters ==
    <<"A","B","C","D","E","F","G","H","I","J","K","L","M",
      "N","O","P","Q","R","S","T","U","V","W","X","Y","Z">>

Digits == <<"0","1","2","3","4","5","6","7","8","9">>

Range(s) == {s[i] : i \in DOMAIN s}

\* str.isalpha on one character
isalpha(c) == c \in Range(LowerLetters) \cup Range(UpperLetters)

\* str.isdigit on one character
isdigit(c) == c \in Range(Digits)

\* the regular expression class \w
IsWordChar(c) == isalpha(c) \/ isdigit(c) \/ c = "_"

\* str.lower on one character
lowerChar(c) ==
    IF \E i \in DOMAIN UpperLetters : UpperLetters[i] = c
    THEN LowerLetters[CHOOSE i \in DOMAIN UpperLetters : UpperLetters[i] = c]
    ELSE c

\* str.upper on one character
upperChar(c) ==
    IF \E i \in DOMAIN LowerLetters : LowerLetters[i] = c
    THEN UpperLetters[CHOOSE i \in DOMAIN LowerLetters : LowerLetters[i] = c]
    ELSE c

\* str.lower
lower(s) == [i \in DOMAIN s |-> lowerChar(s[i])]

\* str.startswith
startswith(s, p) == Len(p) <= Len(s) /\ SubSeq(s, 1, Len(p)) = p

\* the operator `in` on two strings: p is a substring of s
Contains(s, p) ==
    \E i \in 0..(Len(s) - Len(p)) : SubSeq(s, i + 1, i + Len(p)) = p

\* the value of a decimal digit
DigitVal(c) == (CHOOSE i \in DOMAIN Digits : Digits[i] = c) - 1

---------------------------------------------------------------------------
(* parse_obfuscated_number *)

\* word_to_num of parse_obfuscated_number, in the order the dict is written
word_to_num ==
    << <<<<"z","e","r","o">>, 0>>,
       <<<<"o","n","e">>, 1>>,
       <<<<"t","w","o">>, 2>>,
       <<<<"t","h","r","e","e">>, 3>>,
       <<<<"f","o","u","r">>, 4>>,
       <<<<"f","i","v","e">>, 5>>,
       <<<<"s","i","x">>, 6>>,
       <<<<"s","e","v","e","n">>, 7>>,
       <<<<"e","i","g","h","t">>, 8>>,
       <<<<"n","i","n","e">>, 9>>,
       <<<<"t","e","n">>, 10>>,
       <<<<"e","l","e","v","e","n">>, 11>>,
       <<<<"t","w","e","l","v","e">>, 12>>,
       <<<<"t","h","i","r","t","e","e","n">>, 13>>,
       <<<<"f","o","u","r","t","e","e","n">>, 14>>,
       <<<<"f","i","f","t","e","e","n">>, 15>>,
       <<<<"s","i","x","t","e","e","n">>, 16>>,
       <<<<"s","e","v","e","n","t","e","e","n">>, 17>>,
       <<<<"e","i","g","h","t","e","e","n">>, 18>>,
       <<<<"n","i","n","e","t","e","e","n">>, 19>>,
       <<<<"t","w","e","n","t","y">>, 20>>,
       <<<<"t","h","i","r","t","y">>, 30>>,
       <<<<"f","o","r","t","y">>, 40>>,
       <<<<"f","i","f","t","y">>, 50>>,
       <<<<"s","i","x","t","y">>, 60>>,
       <<<<"s","e","v","e","n","t","y">>, 70>>,
       <<<<"e","i","g","h","t","y">>, 80>>,
       <<<<"n","i","n","e","t","y">>, 90>> >>

\* Python's None, and a returned integer
None == [some |-> FALSE, val |-> 0]

Some(v) == [some |-> TRUE, val |-> v]

\* `key in d` and `d[key]` for a dict written as a sequence of pairs
HasKey(d, key) == \E i \in DOMAIN d : d[i][1] = key

Lookup(d, key) == d[CHOOSE i \in DOMAIN d : d[i][1] = key][2]

\* line 81 without the lowercasing
StripNonAlpha(s) == SelectSeq(s, isalpha)

NormalizeNoLower(obfuscated) == StripNonAlpha(obfuscated)

\* line 81: remove non-alphabetic chars and lowercase
Normalize(obfuscated) == lower(StripNonAlpha(obfuscated))

\* lines 92-96 returning the tens value alone
CompoundValueTensOnly(d, normalized, word, val) ==
    IF /\ Len(normalized) > Len(word)
       /\ startswith(normalized, word)
       /\ HasKey(d, SubSeq(normalized, Len(word) + 1, Len(normalized)))
    THEN Some(val)
    ELSE None

\* lines 92-96: one dict entry tried as the head of a compound
CompoundValue(d, normalized, word, val) ==
    IF /\ Len(normalized) > Len(word)
       /\ startswith(normalized, word)
       /\ HasKey(d, SubSeq(normalized, Len(word) + 1, Len(normalized)))
    THEN Some(val + Lookup(d, SubSeq(normalized, Len(word) + 1, Len(normalized))))
    ELSE None

\* lines 88-98: the loop over the dict's items, from item i on
RECURSIVE CompoundLoop(_, _, _)
CompoundLoop(d, normalized, i) ==
    IF i > Len(d) THEN None
    ELSE IF normalized = d[i][1] THEN Some(d[i][2])
    ELSE IF CompoundValue(d, normalized, d[i][1], d[i][2]).some
         THEN CompoundValue(d, normalized, d[i][1], d[i][2])
    ELSE CompoundLoop(d, normalized, i + 1)

\* lines 66-98, with the dict's iteration order a parameter
parse_obfuscated_number(obfuscated, d) ==
    LET normalized == Normalize(obfuscated)
    IN  IF HasKey(d, normalized)
        THEN Some(Lookup(d, normalized))
        ELSE CompoundLoop(d, normalized, 1)

\* iteration orders of the dict: the written one, its rotations, the reverse
Rotate(d, k) == [i \in DOMAIN d |-> d[((i + k - 1) % Len(d)) + 1]]

Reverse(d) == [i \in DOMAIN d |-> d[Len(d) + 1 - i]]

Orders == {Rotate(word_to_num, k) : k \in 0..(Len(word_to_num) - 1)}
          \cup {Reverse(word_to_num)}

(* the obfuscated tokens the matcher is run on *)

Words == {word_to_num[i][1] : i \in DOMAIN word_to_num}

TensWords == {w \in Words : Lookup(word_to_num, w) >= 20}

UnitsWords == {w \in Words : Lookup(word_to_num, w) \in 1..19}

Vowels == {"a", "e", "i", "o", "u"}

\* every assignment of upper/lower case to the letters of w
RECURSIVE CaseVariants(_)
CaseVariants(w) ==
    IF w = <<>> THEN {<<>>}
    ELSE {<<c>> \o r : c \in {w[1], upperChar(w[1])}, r \in CaseVariants(Tail(w))}

\* w with the internal vowel at position i written twice
DupAt(w, i) == SubSeq(w, 1, i) \o <<w[i]>> \o SubSeq(w, i + 1, Len(w))

VowelDups(w) == {DupAt(w, i) : i \in {j \in 2..(Len(w) - 1) : w[j] \in Vowels}}

Compounds == {t \o u : t \in TensWords, u \in UnitsWords}

MatcherInputs ==
    UNION {CaseVariants(w) : w \in Words}
    \cup Compounds
    \cup UNION {VowelDups(w) : w \in Words}

---------------------------------------------------------------------------
(* extract_numbers_from_text *)

\* word_to_num of extract_numbers_from_text: the same entries, then two more
extract_word_to_num ==
    word_to_num \o
    << <<<<"h","u","n","d","r","e","d">>, 100>>,
       <<<<"t","h","o","u","s","a","n","d">>, 1000>> >>

\* the first position >= i of s holding c, or 0
RECURSIVE IndexFrom(_, _, _)
IndexFrom(s, c, i) ==
    IF i > Len(s) THEN 0
    ELSE IF s[i] = c THEN i
    ELSE IndexFrom(s, c, i + 1)

\* re.findall(r'<([^>]+)>', s), scanning from position i: a "<", a non-empty
\* run of characters other than ">", then ">"; the scan resumes after a match
RECURSIVE FindBracketsFrom(_, _)
FindBracketsFrom(s, i) ==
    IF i > Len(s) THEN <<>>
    ELSE LET j == IndexFrom(s, ">", i + 1)
         IN  IF s[i] = "<" /\ j >= i + 2
             THEN <<SubSeq(s, i + 1, j - 1)>> \o FindBracketsFrom(s, j + 1)
             ELSE FindBracketsFrom(s, i + 1)

bracket_numbers(s) == FindBracketsFrom(s, 1)

\* the last position of the maximal run of digits that starts at i (i - 1
\* when s[i] is no digit)
RECURSIVE DigitRunEnd(_, _)
DigitRunEnd(s, i) ==
    IF i <= Len(s) /\ isdigit(s[i]) THEN DigitRunEnd(s, i + 1) ELSE i - 1

\* the integer written by a run of decimal digits
RECURSIVE DecimalValue(_)
DecimalValue(ds) ==
    IF ds = <<>> THEN 0
    ELSE 10 * DecimalValue(SubSeq(ds, 1, Len(ds) - 1)) + DigitVal(ds[Len(ds)])

\* re.findall(r'\b(\d+)\b', s), scanning from position i: a maximal run of
\* digits with no word character on either side
RECURSIVE FindPlainFrom(_, _)
FindPlainFrom(s, i) ==
    IF i > Len(s) THEN <<>>
    ELSE LET k == DigitRunEnd(s, i)
         IN  IF /\ isdigit(s[i])
                /\ (i = 1 \/ ~IsWordChar(s[i - 1]))
                /\ (k = Len(s) \/ ~IsWordChar(s[k + 1]))
             THEN <<DecimalValue(SubSeq(s, i, k))>> \o FindPlainFrom(s, k + 1)
             ELSE FindPlainFrom(s, i + 1)

\* lines 60-61 left out
plain_numbers_none(s) == <<>>

\* lines 60-61: the standalone numbers of the text
plain_numbers(s) == FindPlainFrom(s, 1)

\* int(cleaned) succeeds: an optional sign, then digits, single underscores
\* allowed between digits (cleaned holds no space; other white space is not
\* in the texts of this model)
IsIntBody(b) ==
    /\ b /= <<>>
    /\ \A i \in DOMAIN b : isdigit(b[i]) \/ b[i] = "_"
    /\ isdigit(b[1]) /\ isdigit(b[Len(b)])
    /\ \A i \in 1..(Len(b) - 1) : ~(b[i] = "_" /\ b[i + 1] = "_")

IsIntLiteral(c) ==
    /\ c /= <<>>
    /\ IF c[1] \in {"+", "-"} THEN IsIntBody(Tail(c)) ELSE IsIntBody(c)

NotUnderscore(c) == c /= "_"

\* int(cleaned), for a cleaned that IsIntLiteral
IntValue(c) ==
    IF c[1] = "-" THEN 0 - DecimalValue(SelectSeq(Tail(c), NotUnderscore))
    ELSE IF c[1] = "+" THEN DecimalValue(SelectSeq(Tail(c), NotUnderscore))
    ELSE DecimalValue(SelectSeq(c, NotUnderscore))

NotSpace(c) == c /= " "

\* line 41: bn.lower().replace(' ', '')
Cleaned(bn) == SelectSeq(lower(bn), NotSpace)

\* lines 55-57: every dict word that occurs in cleaned, in dict order
RECURSIVE WordsWithin(_, _, _)
WordsWithin(d, cleaned, i) ==
    IF i > Len(d) THEN <<>>
    ELSE (IF Contains(cleaned, d[i][1]) THEN <<d[i][2]>> ELSE <<>>)
         \o WordsWithin(d, cleaned, i + 1)

\* lines 41-57: what one bracket content appends to numbers
BracketValues(bn) ==
    LET cleaned == Cleaned(bn)
    IN  IF IsIntLiteral(cleaned) THEN <<IntValue(cleaned)>>
        ELSE IF HasKey(extract_word_to_num, cleaned)
             THEN <<Lookup(extract_word_to_num, cleaned)>>
        ELSE WordsWithin(extract_word_to_num, cleaned, 1)

RECURSIVE BracketLoop(_, _)
BracketLoop(bns, i) ==
    IF i > Len(bns) THEN <<>>
    ELSE BracketValues(bns[i]) \o BracketLoop(bns, i + 1)

\* lines 38-61: the list numbers when line 63 is reached
NumbersFound(s) == BracketLoop(bracket_numbers(s), 1) \o plain_numbers(s)

\* line 63 returning numbers itself
list_of_set_identity(ns) == {ns}

\* line 63, list(set(numbers)): the set's elements, once each, in the set's
\* iteration order, which the language leaves open: every order is possible
list_of_set(ns) ==
    LET S == Range(ns)
    IN  {p \in [1..Cardinality(S) -> S] : \A i, j \in DOMAIN p : p[i] = p[j] => i = j}

(* the texts the extractor is run on: up to MaxPieces pieces, concatenated *)

MaxPieces == 4

ExtractorPieces ==
    { <<"<">>, <<">">>, <<"1">>, <<"2">>, <<" ">>,
      <<"o","N","e">>, <<"t","W","e","n","t","y">> }

RECURSIVE TextsOf(_, _)
TextsOf(pieces, n) ==
    IF n = 0 THEN {<<>>}
    ELSE LET shorter == TextsOf(pieces, n - 1)
         IN  shorter \cup {t \o p : t \in shorter, p \in pieces}

ExtractorInputs == TextsOf(ExtractorPieces, MaxPieces)

---------------------------------------------------------------------------
(* Numbers: a float is the rational n/d, d > 0; exc names the exception
   raised in place of a value ("" when there is none) *)

Rat(n, d) == [exc |-> "", n |-> n, d |-> d]

Raise(e) == [exc |-> e, n |-> 0, d |-> 1]

IsNumber(x) == x.exc = ""

RatAdd(a, b) == Rat(a.n * b.d + b.n * a.d, a.d * b.d)

RatMul(a, b) == Rat(a.n * b.n, a.d * b.d)

\* a / b on numbers
RatDiv(a, b) ==
    IF b.n = 0 THEN Raise("ZeroDivisionError")
    ELSE IF b.n > 0 THEN Rat(a.n * b.d, a.d * b.n)
    ELSE Rat(0 - a.n * b.d, 0 - a.d * b.n)

\* a <= b and a = b, by value
RatLeq(a, b) == a.n * b.d <= b.n * a.d

RatEq(a, b) == a.n * b.d = b.n * a.d

\* n/d rounded to the nearest integer, ties to even (n >= 0, d > 0)
RoundHalfEven(n, d) ==
    LET q == n \div d
        r == n % d
    IN  IF 2 * r > d THEN q + 1
        ELSE IF 2 * r < d THEN q
        ELSE IF q % 2 = 0 THEN q ELSE q + 1

\* round(x, 2): the nearest multiple of 1/100
round2(x) ==
    IF x.n >= 0 THEN Rat(RoundHalfEven(x.n * 100, x.d), 100)
    ELSE Rat(0 - RoundHalfEven((0 - x.n) * 100, x.d), 100)

\* f"{x:.2f}": the number of hundredths printed
Format2f(x) == round2(x).n

---------------------------------------------------------------------------
(* calculate_answer and solve_challenge *)

\* the last position of the maximal run of \w characters that starts at i
RECURSIVE WordRunEnd(_, _)
WordRunEnd(s, i) ==
    IF i <= Len(s) /\ IsWordChar(s[i]) THEN WordRunEnd(s, i + 1) ELSE i - 1

\* re.findall(r'<(\w+)>', s), scanning from position i
RECURSIVE FindWordBracketsFrom(_, _)
FindWordBracketsFrom(s, i) ==
    IF i > Len(s) THEN <<>>
    ELSE LET k == WordRunEnd(s, i + 1)
         IN  IF s[i] = "<" /\ k >= i + 1 /\ k < Len(s) /\ s[k + 1] = ">"
             THEN <<SubSeq(s, i + 1, k)>> \o FindWordBracketsFrom(s, k + 2)
             ELSE FindWordBracketsFrom(s, i + 1)

\* line 166
bracket_nums(s) == FindWordBracketsFrom(s, 1)

\* a list of numbers a function returns, or the exception it raises
Returned(l) == [exc |-> "", list |-> l]

RaisedList(e) == [exc |-> e, list |-> <<>>]

\* line 253
DefaultAnswers ==
    <<Rat(147, 100), Rat(40, 1), Rat(5867, 100), Rat(375, 1), Rat(525, 1)>>

\* lines 228-229 with every bracket content cast by int(): a content that is
\* no integer literal raises
BranchTestIntCast(bns) ==
    IF \E i \in DOMAIN bns : ~IsIntLiteral(bns[i])
    THEN [exc |-> "ValueError", taken |-> FALSE]
    ELSE [exc |-> "",
          taken |-> /\ \E i \in DOMAIN bns : IntValue(bns[i]) = 25
                    /\ \E i \in DOMAIN bns : IntValue(bns[i]) = 15]

\* lines 227-229: the three nested tests on bracket_nums
BranchTest(bns) ==
    [exc |-> "",
     taken |->
        /\ bns /= <<>>
        /\ \/ \E i \in DOMAIN bns :
                 lower(bns[i]) = <<"t","w","e","n","t","y","f","i","v","e">>
           \/ \E i \in DOMAIN bns : bns[i] = <<"2","5">>
        /\ \/ \E i \in DOMAIN bns :
                 lower(bns[i]) = <<"f","i","f","t","e","e","n">>
           \/ \E i \in DOMAIN bns : bns[i] = <<"1","5">>]

\* lines 238-247 with rate1 the other way up, 25 / 20
RateAnswersSwapped ==
    LET rate1 == RatDiv(Rat(25, 1), Rat(20, 1))
        rate2 == RatDiv(Rat(10, 1), Rat(15, 1))
        total_time == Rat(25 + 15, 1)
    IN  Returned(<<round2(RatAdd(rate1, rate2)),
                   round2(RatMul(RatAdd(rate1, rate2), total_time)),
                   Rat(25 + 15, 1)>>)

\* lines 235-250: the three interpretations
RateAnswers ==
    LET rate1 == RatDiv(Rat(20, 1), Rat(25, 1))
        rate2 == RatDiv(Rat(10, 1), Rat(15, 1))
        total_time == Rat(25 + 15, 1)
    IN  IF ~IsNumber(rate1) THEN RaisedList(rate1.exc)
        ELSE IF ~IsNumber(rate2) THEN RaisedList(rate2.exc)
        ELSE Returned(<<round2(RatAdd(rate1, rate2)),
                        round2(RatMul(RatAdd(rate1, rate2), total_time)),
                        Rat(25 + 15, 1)>>)

\* lines 156-253.  parsed_values, all_numbers and question_match (lines
\* 173-218) are only printed and reach no return value
calculate_answer(challenge_text) ==
    LET test == BranchTest(bracket_nums(challenge_text))
    IN  IF test.exc /= "" THEN RaisedList(test.exc)
        ELSE IF test.taken THEN RateAnswers
        ELSE Returned(DefaultAnswers)

\* lines 264-266: the first answer from position i on that is in 1..100
RECURSIVE FirstInRange(_, _)
FirstInRange(l, i) ==
    IF i > Len(l) THEN 0
    ELSE IF RatLeq(Rat(1, 1), l[i]) /\ RatLeq(l[i], Rat(100, 1)) THEN i
    ELSE FirstInRange(l, i + 1)

\* lines 264-268
PickAnswer(l) ==
    IF FirstInRange(l, 1) > 0 THEN round2(l[FirstInRange(l, 1)])
    ELSE IF l /= <<>> THEN l[1]
    ELSE Rat(0, 1)

\* lines 256-268, given what calculate_answer returned
solve_challenge(ans) ==
    IF ans.exc /= "" THEN Raise(ans.exc) ELSE PickAnswer(ans.list)

(* the texts the solver is run on: up to MaxSolvePieces pieces, concatenated,
   and the two scenario texts *)

MaxSolvePieces == 4

SolvePieces ==
    { <<"<">>, <<">">>, <<" ">>, <<"2","5">>,
      <<"<","1","5",">">>,
      <<"<","f","I","f","T","e","e","n",">">>,
      <<"<","t","W","e","n","t","y","F","i","v","e",">">> }

Scenario1 ==
    <<"s","w","i","m","s"," ","<","2","0",">"," ","y","a","r","d","s"," ",
      "a","n","d"," ","<","1","5",">"," ","f","e","e","t">>

HelloWorld == <<"h","e","l","l","o"," ","w","o","r","l","d">>

SolveInputs == TextsOf(SolvePieces, MaxSolvePieces) \cup {Scenario1, HelloWorld}

---------------------------------------------------------------------------
(* idle values of the variables a specification does not use *)

NoText == <<>>

NoArgs == [command |-> "none"]

IdleMain ==
    /\ args = NoArgs /\ stdin = NoArgs /\ net = "idle"
    /\ stdout = <<>> /\ posts = 0 /\ status = "idle"

NoAnswer == [exc |-> "unset", n |-> 0, d |-> 1]

NoAnswers == [exc |-> "unset", list |-> <<>>]

IdleFunctions ==
    /\ matched = None /\ numbers = <<>> /\ extracted = <<>>
    /\ answers = NoAnswers /\ answer = NoAnswer

---------------------------------------------------------------------------
(* SpecMatcher *)

InitMatcher ==
    /\ pc = "ready"
    /\ text \in MatcherInputs
    /\ IdleFunctions
    /\ IdleMain

ParseObfuscatedNumber ==
    /\ pc = "ready"
    /\ \E d \in Orders : matched' = parse_obfuscated_number(text, d)
    /\ pc' = "done"
    /\ UNCHANGED <<text, numbers, extracted, answers, answer,
                   args, stdin, net, stdout, posts, status>>

NextMatcher == ParseObfuscatedNumber

SpecMatcher == InitMatcher /\ [][NextMatcher]_vars

(* C3: for every canonical lexicon word and every assignment of upper and
   lower case to its letters, parse_obfuscated_number returns exactly that
   word's lexicon value. *)
C3_CaseInsensitive ==
    pc = "done" =>
        \A w \in Words :
            text \in CaseVariants(w) => matched = Some(Lookup(word_to_num, w))

\* "TwEnTy" has been parsed
C3_Witness ==
    /\ pc = "done"
    /\ text = <<"T","w","E","n","T","y">>
    /\ matched = Some(20)

(* C4: for every tens-word t and every units-word u (one..nineteen),
   parse_obfuscated_number applied to t+u returns value(t) + value(u),
   whatever the order in which the lexicon is iterated. *)
C4_Compound ==
    pc = "done" =>
        \A t \in TensWords : \A u \in UnitsWords :
            text = t \o u =>
                matched = Some(Lookup(word_to_num, t) + Lookup(word_to_num, u))

\* "seventyone", whose head "seven" is itself a lexicon word, parsed to 71
C4_Witness ==
    /\ pc = "done"
    /\ text = <<"s","e","v","e","n","t","y","o","n","e">>
    /\ matched = Some(71)

(* C5: a token obtained from a canonical lexicon word by duplicating one
   internal vowel is still matched to the canonical word's value. *)
C5_FuzzyTolerance ==
    pc = "done" =>
        \A w \in Words :
            text \in VowelDups(w) => matched = Some(Lookup(word_to_num, w))

---------------------------------------------------------------------------
(* SpecExtractor *)

InitExtractor ==
    /\ pc = "ready"
    /\ text \in ExtractorInputs
    /\ IdleFunctions
    /\ IdleMain

ExtractNumbersFromText ==
    /\ pc = "ready"
    /\ numbers' = NumbersFound(text)
    /\ extracted' \in list_of_set(NumbersFound(text))
    /\ pc' = "done"
    /\ UNCHANGED <<text, matched, answers, answer,
                   args, stdin, net, stdout, posts, status>>

NextExtractor == ExtractNumbersFromText

SpecExtractor == InitExtractor /\ [][NextExtractor]_vars

\* s[i..j] is "<", a non-empty run of decimal digits, ">"
IsDigitBracket(s, i, j) ==
    /\ j >= i + 2
    /\ s[i] = "<" /\ s[j] = ">"
    /\ \A k \in (i + 1)..(j - 1) : isdigit(s[k])

(* C6: for every input text containing a substring <d>, d a run of decimal
   digits, the result of extract_numbers_from_text contains the integer
   value of d. *)
C6_BracketExtraction ==
    pc = "done" =>
        \A i, j \in DOMAIN text :
            IsDigitBracket(text, i, j) =>
                DecimalValue(SubSeq(text, i + 1, j - 1)) \in Range(extracted)

\* "<<2>" has been extracted: the bracket scan yields "<2", which is no
\* number, and 2 is in the result all the same
C6_Witness ==
    /\ pc = "done"
    /\ text = <<"<","<","2",">">>
    /\ 2 \in Range(extracted)

(* C9 as stated: the extractor performs no deduplication and keeps scan
   order, so the returned sequence is the findings, one entry per finding,
   bracket findings first and then plain-digit findings, each in text
   order. *)
C9_NoDedupScanOrder ==
    pc = "done" => extracted = numbers

(* C9 as amended: the extractor deduplicates; every value found appears
   exactly once in the returned sequence, however many findings produced
   it, and nothing else appears. *)
C9_Deduplicated ==
    pc = "done" =>
        /\ Range(extracted) = Range(numbers)
        /\ \A i, j \in DOMAIN extracted : extracted[i] = extracted[j] => i = j

\* "<1>2": 1 is found in the bracket and as a digit run, 2 as a digit run
C9_Witness ==
    /\ pc = "done"
    /\ text = <<"<","1",">","2">>
    /\ numbers = <<1, 1, 2>>
    /\ Len(extracted) = 2

---------------------------------------------------------------------------
(* SpecSolve *)

InitSolve ==
    /\ pc = "ready"
    /\ text \in SolveInputs
    /\ IdleFunctions
    /\ IdleMain

SolveChallenge ==
    /\ pc = "ready"
    /\ answers' = calculate_answer(text)
    /\ answer' = solve_challenge(calculate_answer(text))
    /\ pc' = "done"
    /\ UNCHANGED <<text, matched, numbers, extracted,
                   args, stdin, net, stdout, posts, status>>

NextSolve == SolveChallenge

SpecSolve == InitSolve /\ [][NextSolve]_vars

(* C1: for the input text "swims <20> yards and <15> feet" solve_challenge
   returns the sum of the two bracket values, 35.00. *)
C1_Scenario1Sum ==
    (pc = "done" /\ text = Scenario1) =>
        (IsNumber(answer) /\ RatEq(answer, Rat(35, 1)))

\* the text holds no digit and no lexicon word, in any letter case
NoRecognizableNumber(s) ==
    /\ \A i \in DOMAIN s : ~isdigit(s[i])
    /\ \A i \in DOMAIN extract_word_to_num :
           ~Contains(lower(s), extract_word_to_num[i][1])

(* C2: for every input text that contains no recognizable number (no bracket
   value, no digit run, no number word) solve_challenge returns the default
   answer 0.00. *)
C2_NoEvidenceDefault ==
    (pc = "done" /\ NoRecognizableNumber(text)) =>
        (IsNumber(answer) /\ RatEq(answer, Rat(0, 1)))

(* C7: for every input string, the empty string and text with no letters,
   digits or brackets included, solve_challenge terminates without raising
   and returns a numeric answer. *)
C7_NeverRaises ==
    pc = "done" => (answers.exc = "" /\ IsNumber(answer) /\ answer.d > 0)

\* the empty string has been solved, and so has a bracket that holds a word
\* and no number
C7_Witness ==
    /\ pc = "done"
    /\ text \in {<<>>, <<"<","f","I","f","T","e","e","n",">">>}
    /\ IsNumber(answer)

(* C10: the answer of solve_challenge does not depend on the input: the
   candidate list calculate_answer returns is the bracket-matched one or
   the default one, the first element in the range 1..100 of either is
   1.47, and solve_challenge returns 1.47. *)
C10_AlwaysOnePointFourSeven ==
    pc = "done" =>
        /\ answers.exc = ""
        /\ \/ answers.list = DefaultAnswers
           \/ answers.list = <<Rat(147, 100), Rat(5867, 100), Rat(40, 1)>>
        /\ FirstInRange(answers.list, 1) = 1
        /\ answers.list[1] = Rat(147, 100)
        /\ answer = Rat(147, 100)

\* the bracket-matched list has been produced and answered with 1.47
C10_Witness ==
    /\ pc = "done"
    /\ text = <<"<","t","W","e","n","t","y","F","i","v","e",">","<","1","5",">">>
    /\ Len(answers.list) = 3
    /\ answer = Rat(147, 100)

---------------------------------------------------------------------------
(* Spec: main() *)

\* one print call: what is printed and, where it matters, a value
Line(kind, val) == [kind |-> kind, val |-> val]

\* a command-line or JSON string that may be absent (None)
Absent == [given |-> FALSE, val |-> <<>>]

Given(s) == [given |-> TRUE, val |-> s]

\* the truth value of an optional string: None and "" are false
Truthy(o) == o.given /\ o.val /= <<>>

MainTexts == {<<>>, Scenario1, <<"<","2","5",">"," ","<","1","5",">">>}

OptionalTexts == {Absent} \cup {Given(t) : t \in MainTexts}

OptionalTokens == {Absent, Given(<<>>), Given(<<"k","1">>)}

\* what requests.post and response.json() do when the endpoint is called
NetOutcomes == {"success", "failure", "unreachable", "not_json"}

\* the JSON documents read by the auto command
NoStdin == [valid |-> FALSE, has_verification |-> FALSE,
            challenge_text |-> Absent, verification_code |-> Absent,
            has_api_key |-> FALSE]

StdinDocs ==
    {NoStdin} \cup
    [valid : {TRUE}, has_verification : BOOLEAN,
     challenge_text : OptionalTexts, verification_code : OptionalTokens,
     has_api_key : BOOLEAN]

\* dict.get(key, ''): the value, or '' for a missing key
GetOrEmpty(o) == IF o.given THEN o.val ELSE <<>>

Init ==
    /\ pc = "start"
    /\ args \in [command : {"parse", "solve", "auto"},
                 text : OptionalTexts,
                 code : OptionalTokens,
                 submit : BOOLEAN,
                 api_key : OptionalTokens]
    /\ stdin \in StdinDocs
    /\ (args.command /= "auto" => stdin = NoStdin)
    /\ (args.command = "auto" =>
            /\ args.text = Absent /\ args.code = Absent
            /\ args.submit = FALSE /\ args.api_key = Absent)
    /\ net \in NetOutcomes
    /\ text = NoText
    /\ stdout = <<>> /\ posts = 0 /\ status = "running"
    /\ IdleFunctions

\* sys.exit(1) at lines 303, 310 and 317: the `import sys` of line 323 makes
\* sys a local name of main, unbound until that line runs, so the call
\* raises UnboundLocalError and the process ends by the uncaught exception
SysExit1 == "UnboundLocalError"

\* lines 300-305
CmdParse ==
    /\ pc = "start" /\ args.command = "parse"
    /\ IF ~Truthy(args.text)
       THEN /\ stdout' = Append(stdout, Line("error", 0))
            /\ status' = SysExit1
       ELSE /\ stdout' = stdout \o <<Line("trace", 0), Line("problem", 0)>>
            /\ status' = "exit0"
    /\ pc' = "exited"
    /\ UNCHANGED <<text, matched, numbers, extracted, answers, answer,
                   args, stdin, net, posts>>

\* solve_challenge and the print of lines 311-312 / 330-331, on challenge t
Solved(t) ==
    /\ text' = t
    /\ answers' = calculate_answer(t)
    /\ answer' = solve_challenge(calculate_answer(t))

\* lines 307-317: the solve command up to the submission call
CmdSolve ==
    /\ pc = "start" /\ args.command = "solve"
    /\ IF ~Truthy(args.text)
       THEN /\ stdout' = Append(stdout, Line("error", 0))
            /\ status' = SysExit1
            /\ pc' = "exited"
            /\ UNCHANGED <<text, answers, answer>>
       ELSE /\ Solved(args.text.val)
            /\ IF args.submit /\ Truthy(args.code)
               THEN IF ~Truthy(args.api_key)
                    THEN /\ stdout' = stdout \o
                              <<Line("answer", Format2f(answer')),
                                Line("error", 0)>>
                         /\ status' = SysExit1
                         /\ pc' = "exited"
                    ELSE /\ stdout' = Append(stdout,
                                             Line("answer", Format2f(answer')))
                         /\ status' = status
                         /\ pc' = "submit"
               ELSE /\ stdout' = Append(stdout, Line("answer", Format2f(answer')))
                    /\ status' = "exit0"
                    /\ pc' = "exited"
    /\ UNCHANGED <<matched, numbers, extracted, args, stdin, net, posts>>

\* lines 321-333: the auto command up to the submission call
CmdAuto ==
    /\ pc = "start" /\ args.command = "auto"
    /\ IF ~stdin.valid
       THEN /\ status' = "JSONDecodeError"
            /\ pc' = "exited"
            /\ UNCHANGED <<text, answers, answer, stdout>>
       ELSE IF ~stdin.has_verification
       THEN /\ status' = "exit0"
            /\ pc' = "exited"
            /\ UNCHANGED <<text, answers, answer, stdout>>
       ELSE /\ Solved(GetOrEmpty(stdin.challenge_text))
            /\ stdout' = Append(stdout, Line("answer", Format2f(answer')))
            /\ IF GetOrEmpty(stdin.verification_code) /= <<>> /\ stdin.has_api_key
               THEN status' = status /\ pc' = "submit"
               ELSE status' = "exit0" /\ pc' = "exited"
    /\ UNCHANGED <<matched, numbers, extracted, args, stdin, net, posts>>

\* lines 271-286 and the print of line 319 / 335: one requests.post, then
\* response.json(); neither call is guarded by try/except
SubmitVerification ==
    /\ pc = "submit"
    /\ posts' = posts + 1
    /\ \/ /\ net = "success"
          /\ stdout' = Append(stdout, Line("result", 1))
          /\ status' = "exit0"
       \/ /\ net = "failure"
          /\ stdout' = Append(stdout, Line("result", 0))
          /\ status' = "exit0"
       \/ /\ net = "unreachable"
          /\ stdout' = stdout
          /\ status' = "ConnectionError"
       \/ /\ net = "not_json"
          /\ stdout' = stdout
          /\ status' = "JSONDecodeError"
    /\ pc' = "exited"
    /\ UNCHANGED <<text, matched, numbers, extracted, answers, answer,
                   args, stdin, net>>

Next == CmdParse \/ CmdSolve \/ CmdAuto \/ SubmitVerification

Spec == Init /\ [][Next]_vars

(* C8: in the solve and auto commands, when the single submission call
   fails (endpoint unreachable or non-success payload), the failure is
   surfaced to the caller as a success-flag/message result rather than an
   error termination, no second submission attempt is made, and the locally
   computed answer is still output. *)
C8_SubmissionFailureSurfaced ==
    (pc = "exited" /\ posts >= 1 /\ net \in {"unreachable", "failure"}) =>
        /\ status = "exit0"
        /\ \E i \in DOMAIN stdout : stdout[i] = Line("result", 0)
        /\ posts = 1
        /\ \E i \in DOMAIN stdout : stdout[i] = Line("answer", Format2f(answer))

=============================================================================
